---- MODULE Spec2Model ----
(***************************************************************************)
(* State-machine model of the daylevel tool servers:                       *)
(*   server.py   - Tushare MCP tools + POST /tools/setup_tushare_token      *)
(*   intraday.py - the reduced copy of server.py                           *)
(*   refer.py    - the Supabase PE-percentile tool                         *)
(* One action is one whole tool invocation or HTTP request.  The remote    *)
(* services (Tushare, Supabase), the filesystem and the callers' arguments *)
(* are the environment: their behaviour is drawn from small sets.          *)
(***************************************************************************)
EXTENDS Integers, Sequences, FiniteSets, TLC

VARIABLES
    server,      \* which of the three server files this process runs
    projectEnv,  \* intraday.py: ENV_FILE is the project .env (chosen at import)
    started,     \* intraday.py: the startup event has run
    osEnv,       \* os.environ["TUSHARE_TOKEN"], PyNone when unset
    envFile,     \* the dotenv file ENV_FILE: missing, or its TUSHARE_TOKEN entry
    libToken,    \* the token held by the tushare library (ts.set_token)
    inv,         \* the last invocation: tool name and arguments
    calls,       \* the remote requests issued by the last invocation, in order
    result,      \* what the last invocation returned to its caller
    seen,        \* what get_tushare_token() returned last in that invocation
    persisted,   \* history: token of the last set_tushare_token call that ended without error
    sseOpen,     \* an SSE stream to an MCP client is open
    setCalls,    \* the set_tushare_token calls in progress, statement by statement
    pc           \* "idle": waiting for a request; "done": a request was just served

vars == <<server, projectEnv, started, osEnv, envFile, libToken, inv, calls, result, seen,
          persisted, sseOpen, setCalls, pc>>

-----------------------------------------------------------------------------
(* Python values.  Every value carries its type, so that None, "", 0 and a  *)
(* non-string payload entry stay distinct, as `not x` and isinstance see    *)
(* them.                                                                   *)

PyNone == [type |-> "NoneType"]
PyStr(s) == [type |-> "str", v |-> s]
PyInt(n) == [type |-> "int", v |-> n]
NotCalled == [type |-> "not_called"]

\* Python truth value of x (`if x:` / `not x`).
Truthy(x) ==
    CASE x.type = "NoneType" -> FALSE
      [] x.type = "str"      -> x.v # ""
      [] x.type = "int"      -> x.v # 0
      [] OTHER               -> TRUE

Tokens == {PyStr("tokA"), PyStr("tokB")}

\* What the environment variable can hold when the process starts.
EnvValues == {PyNone, PyStr("")} \cup Tokens

NoFile == [exists |-> FALSE]
FileWith(entry) == [exists |-> TRUE, key |-> entry]
\* The dotenv file when the process starts: missing, without the key, or
\* with a (possibly empty) TUSHARE_TOKEN entry.
FileValues == {NoFile, FileWith(PyNone), FileWith(PyStr(""))} \cup {FileWith(t) : t \in Tokens}

\* Where a filesystem operation of init_env_file can raise.
FsOutcomes == {"ok", "mkdir_raises", "load_raises"}

-----------------------------------------------------------------------------
(* Token management: init_env_file, get_tushare_token, set_tushare_token.   *)
(* An environment e is the record [osEnv, envFile, libToken].              *)

\* dotenv.load_dotenv(path) with the default override=False: a key of the
\* file is copied into os.environ only when os.environ does not hold it.
load_dotenv(env, file) ==
    IF file.exists /\ file.key # PyNone /\ env = PyNone THEN file.key ELSE env

\* dotenv.set_key(path, key, value): rewrites the file's entry (creating the
\* file when missing) as key='value'; read back, the quotes are stripped.
\* os.environ is not touched.
set_key(file, token) == FileWith(token)

\* server.py init_env_file: mkdir, touch when missing, load_dotenv; any
\* exception is caught and logged.
init_env_file_server(e, fs) ==
    IF fs = "mkdir_raises" THEN e
    ELSE LET f == IF e.envFile.exists THEN e.envFile ELSE FileWith(PyNone)
         IN  IF fs = "load_raises" THEN [e EXCEPT !.envFile = f]
             ELSE [e EXCEPT !.envFile = f, !.osEnv = load_dotenv(e.osEnv, f)]

\* intraday.py init_env_file: the project .env, when in use and present, is
\* loaded directly; otherwise as in server.py.
init_env_file_intraday(e, fs, isProject) ==
    IF isProject /\ e.envFile.exists
    THEN IF fs = "load_raises" THEN e
         ELSE [e EXCEPT !.osEnv = load_dotenv(e.osEnv, e.envFile)]
    ELSE init_env_file_server(e, fs)

init_env_file(srv, isProject, e, fs) ==
    IF srv = "intraday" THEN init_env_file_intraday(e, fs, isProject)
    ELSE init_env_file_server(e, fs)

\* get_tushare_token: init_env_file(), then os.getenv("TUSHARE_TOKEN").
get_tushare_token(srv, isProject, e, fs) ==
    LET e1 == init_env_file(srv, isProject, e, fs)
    IN  [env |-> e1, token |-> e1.osEnv]

\* set_tushare_token: init_env_file(); try: set_key; ts.set_token; except:
\* log.  `ok` is history only (the function returns None either way).
set_tushare_token(srv, isProject, e, token, fs, setKeyRaises, setTokenRaises) ==
    LET e1 == init_env_file(srv, isProject, e, fs)
        e2 == [e1 EXCEPT !.envFile = set_key(e1.envFile, token)]
    IN  IF setKeyRaises THEN [env |-> e1, ok |-> FALSE]
        ELSE IF setTokenRaises THEN [env |-> e2, ok |-> FALSE]
        ELSE [env |-> [e2 EXCEPT !.libToken = token], ok |-> TRUE]

-----------------------------------------------------------------------------
(* Remote requests.                                                        *)

\* ts.pro_api(token): the client object bound to a token.
pro_api(token) == [type |-> "DataApi", token |-> token]

\* One request to a remote endpoint with the answer it got, as logged in
\* `calls`.
Call(api, token, params, answer) ==
    [api |-> api, token |-> token, params |-> params, answer |-> answer]

\* The answer of a remote request: it raises, or returns a table (DataFrame).
Raises == [raises |-> TRUE]
Table(rows) == [raises |-> FALSE, rows |-> rows]

\* A bug: only None is dropped, an empty string is forwarded.
NonEmpty_NotNone(pairs) == {p \in pairs : p[2] # PyNone}

\* The keyword arguments among `pairs` whose value is truthy.
NonEmpty(pairs) == {p \in pairs : Truthy(p[2])}

\* A bug: `if token_value is None`, which lets the empty token through.
TokenMissing_NoneOnly(token_value) == token_value = PyNone

\* `if not token_value:` after token_value = get_tushare_token().
TokenMissing(token_value) == ~Truthy(token_value)

\* The error every Tushare tool returns when get_tushare_token() yields no token.
TokenError == [kind |-> "token_error"]

\* What one invocation did: the environment it leaves, its remote requests,
\* its return value and the token get_tushare_token() gave it.
Outcome(e, cs, res, tok) == [env |-> e, calls |-> cs, result |-> res, seen |-> tok]

\* A bug: the exception is raised again, out of the tool.
except_Exception_Reraise(tool, e, cs, tok) ==
    Outcome(e, cs, [kind |-> "exception", tool |-> tool], tok)

\* `except Exception as e:` around the body of a data tool: the tool returns
\* its failure text '...失败：<error>'.
except_Exception(tool, e, cs, tok) ==
    Outcome(e, cs, [kind |-> "failed", tool |-> tool], tok)

\* df[col] is defined: every row of the table has the column.  Indexing a
\* table without the column raises KeyError.
HasColumn(df, col) == \A i \in 1..Len(df) : col \in DOMAIN df[i]

\* A bug: the lookup is repeated once when it fails.
_get_stock_name_Retry(pro_api_instance, ts_code, nameResp) ==
    IF ~Truthy(pro_api_instance) \/ pro_api_instance.type # "DataApi"
    THEN [name |-> ts_code, calls |-> <<>>]
    ELSE LET c == Call("stock_basic", pro_api_instance.token,
                       {<<"ts_code", ts_code>>, <<"fields", PyStr("ts_code,name")>>},
                       nameResp)
         IN  IF nameResp \in {"raise", "empty"}
             THEN [name |-> ts_code, calls |-> <<c, c>>]
             ELSE [name |-> PyStr(nameResp), calls |-> <<c>>]

\* _get_stock_name(pro_api_instance, ts_code): the name of the first row of
\* stock_basic(ts_code=...), else the second argument as it was passed.  An
\* instance without a stock_basic method raises AttributeError inside the
\* try, which is caught; no request is sent then.
\* nameResp: "raise", "empty", or the name column of the first row.
_get_stock_name(pro_api_instance, ts_code, nameResp) ==
    IF ~Truthy(pro_api_instance) THEN [name |-> ts_code, calls |-> <<>>]
    ELSE IF pro_api_instance.type # "DataApi" THEN [name |-> ts_code, calls |-> <<>>]
    ELSE LET c == Call("stock_basic", pro_api_instance.token,
                       {<<"ts_code", ts_code>>, <<"fields", PyStr("ts_code,name")>>},
                       nameResp)
         IN  IF nameResp \in {"raise", "empty"}
             THEN [name |-> ts_code, calls |-> <<c>>]
             ELSE [name |-> PyStr(nameResp), calls |-> <<c>>]

NameResponses == {"raise", "empty", "PFBank"}

\* The answers of the validation request pro.stock_basic(limit=1).
ProbeResponses == {"raise", "none", "empty", "rows"}

\* setup_tushare_token(token), server.py.
setup_tushare_token(e, token, fs, setKeyRaises, setTokenRaises, probe) ==
    IF ~Truthy(token)
    THEN [env |-> e, calls |-> <<>>, result |-> [kind |-> "setup_no_token"],
          seen |-> NotCalled, setOk |-> FALSE, setCalled |-> FALSE]
    ELSE LET s == set_tushare_token("server", FALSE, e, token, fs, setKeyRaises, setTokenRaises)
             c == Call("stock_basic", token, {<<"limit", PyInt(1)>>}, probe)
             res == CASE probe = "raise" -> [kind |-> "setup_failed"]
                      [] probe = "rows"  -> [kind |-> "setup_success"]
                      [] OTHER           -> [kind |-> "setup_warning"]
         IN  [env |-> s.env, calls |-> <<c>>, result |-> res,
              seen |-> NotCalled, setOk |-> s.ok, setCalled |-> TRUE]

\* A bug: the validation request is sent again when it raises.
check_token_status_Retry(e, fs, probe) ==
    LET g == get_tushare_token("server", FALSE, e, fs)
        c == Call("stock_basic", g.token, {<<"limit", PyInt(1)>>}, probe)
    IN  IF TokenMissing(g.token)
        THEN Outcome(g.env, <<>>, [kind |-> "status_no_token"], g.token)
        ELSE Outcome(g.env, IF probe = "raise" THEN <<c, c>> ELSE <<c>>,
                     CASE probe = "raise" -> [kind |-> "status_failed"]
                       [] probe = "rows"  -> [kind |-> "status_ok", token |-> g.token]
                       [] OTHER           -> [kind |-> "status_warning"],
                     g.token)

\* check_token_status(), server.py.
check_token_status(e, fs, probe) ==
    LET g == get_tushare_token("server", FALSE, e, fs)
        c == Call("stock_basic", g.token, {<<"limit", PyInt(1)>>}, probe)
    IN  IF TokenMissing(g.token)
        THEN Outcome(g.env, <<>>, [kind |-> "status_no_token"], g.token)
        ELSE Outcome(g.env, <<c>>,
                     CASE probe = "raise" -> [kind |-> "status_failed"]
                       [] probe = "rows"  -> [kind |-> "status_ok", token |-> g.token]
                       [] OTHER           -> [kind |-> "status_warning"],
                     g.token)

-----------------------------------------------------------------------------
(* search_stocks.  Text is a sequence of one-character strings.            *)

Fold(c) ==
    CASE c = "S" -> "s"
      [] c = "H" -> "h"
      [] c = "Z" -> "z"
      [] OTHER   -> c

\* re: the pattern matches the text at offset i; "." matches any character.
MatchAt(text, pat, i) ==
    \A j \in 1..Len(pat) : pat[j] = "." \/ Fold(pat[j]) = Fold(text[i + j - 1])

\* A pattern re.compile rejects (an unbalanced parenthesis).
BadPattern(pat) == \E j \in 1..Len(pat) : pat[j] = "("

\* Series.str.contains(keyword, case=False, na=False): a regex search.
str_contains(text, pat) ==
    \E i \in 1..(Len(text) - Len(pat) + 1) : MatchAt(text, pat, i)

RECURSIVE FilterRows(_, _)
\* df[mask]: the rows whose ts_code or name contains the keyword, in order.
FilterRows(df, keyword) ==
    IF df = <<>> THEN <<>>
    ELSE LET r == Head(df)
             rest == FilterRows(Tail(df), keyword)
         IN  IF str_contains(r.ts_code, keyword) \/ str_contains(r.name, keyword)
             THEN <<r>> \o rest ELSE rest

\* The separator of "...".join(output): server.py joins with the two
\* characters backslash, n; intraday.py with a newline.
JoinSeparator(srv) == IF srv = "server" THEN "backslash-n" ELSE "newline"

\* search_stocks(keyword); resp is the answer of pro.stock_basic().
search_stocks(srv, isProject, e, keyword, fs, resp) ==
    LET g == get_tushare_token(srv, isProject, e, fs)
        c == Call("stock_basic", g.token, {}, resp)
    IN  IF TokenMissing(g.token) THEN Outcome(g.env, <<>>, TokenError, g.token)
        ELSE IF resp.raises THEN except_Exception("search_stocks", g.env, <<c>>, g.token)
        ELSE IF ~HasColumn(resp.rows, "ts_code") \/ ~HasColumn(resp.rows, "name")
        THEN except_Exception("search_stocks", g.env, <<c>>, g.token)
        ELSE IF BadPattern(keyword)
        THEN except_Exception("search_stocks", g.env, <<c>>, g.token)
        ELSE LET hits == FilterRows(resp.rows, keyword)
             IN  IF hits = <<>>
                 THEN Outcome(g.env, <<c>>, [kind |-> "no_stock_found"], g.token)
                 ELSE Outcome(g.env, <<c>>,
                              [kind |-> "stocks",
                               lines |-> [i \in 1..Len(hits) |-> <<hits[i].ts_code, hits[i].name>>],
                               sep |-> JoinSeparator(srv)],
                              g.token)

-----------------------------------------------------------------------------
(* get_daily_prices.                                                       *)

RECURSIVE InsertDesc(_, _)
InsertDesc(row, sorted) ==
    IF sorted = <<>> THEN <<row>>
    ELSE IF Head(sorted).trade_date >= row.trade_date
         THEN <<Head(sorted)>> \o InsertDesc(row, Tail(sorted))
         ELSE <<row>> \o sorted

RECURSIVE SortDesc(_)
\* df.sort_values(by='trade_date', ascending=False).  Dates are the numbers
\* YYYYMMDD, whose order is the order of the 8-character strings.
SortDesc(df) ==
    IF df = <<>> THEN <<>>
    ELSE LET n == Len(df) IN InsertDesc(df[n], SortDesc(SubSeq(df, 1, n - 1)))

\* A bug: the two shapes are not made exclusive.
DailyShapeOk_Loose(trade_date, start_date, end_date) ==
    Truthy(trade_date) \/ (Truthy(start_date) /\ Truthy(end_date))

\* The parameter check of get_daily_prices: trade_date alone, or start_date
\* with end_date and no trade_date.
DailyShapeOk(trade_date, start_date, end_date) ==
    \/ Truthy(trade_date) /\ ~(Truthy(start_date) \/ Truthy(end_date))
    \/ (Truthy(start_date) /\ Truthy(end_date)) /\ ~Truthy(trade_date)

\* api_params of get_daily_prices.
DailyParams(ts_code, trade_date, start_date, end_date) ==
    {<<"ts_code", ts_code>>,
     <<"fields", PyStr("ts_code,trade_date,open,high,low,close,vol,amount")>>}
    \cup (IF Truthy(trade_date) THEN {<<"trade_date", trade_date>>} ELSE {})
    \cup (IF Truthy(start_date) /\ Truthy(end_date)
          THEN {<<"start_date", start_date>>, <<"end_date", end_date>>} ELSE {})

\* The cells of a price table: a number (in hundredths), NaN, a text.
NumCell(n) == [cell |-> "number", v |-> n]
NaN == [cell |-> "nan"]
TextCell(t) == [cell |-> "text", v |-> t]

\* pd.notna(x)
pd_notna(x) == x.cell # "nan"

\* pd.to_numeric(x): the number, or ValueError for a text that is no number.
to_numeric(x) == IF x.cell = "number" THEN [ok |-> TRUE, v |-> x.v] ELSE [ok |-> FALSE]

\* The keys of price_fields, in the order of the dict literal.
price_fields == <<"open", "high", "low", "close", "vol", "amount">>

\* The unit and the format of a price field.
FieldFormat(field) ==
    CASE field = "vol"    -> [format |-> ",.0f", unit |-> "lots"]
      [] field = "amount" -> [format |-> ",.2f", unit |-> "thousand yuan"]
      [] OTHER            -> [format |-> ".2f", unit |-> "yuan"]

\* A bug: a value that is no number aborts the invocation (no inner try).
PriceLine_NoInnerTry(row, field) ==
    IF field \in DOMAIN row /\ pd_notna(row[field])
    THEN LET numeric_value == to_numeric(row[field])
         IN  IF numeric_value.ok
             THEN [field |-> field, shows |-> "number", v |-> numeric_value.v,
                   as |-> FieldFormat(field)]
             ELSE [field |-> field, shows |-> "exception"]
    ELSE [field |-> field, shows |-> "not_provided"]

\* The line printed for one field of one row: the formatted number, the
\* '(值非数字: ...)' text when to_numeric raises, '未提供' when the column is
\* absent or the cell is NaN.
PriceLine(row, field) ==
    IF field \in DOMAIN row /\ pd_notna(row[field])
    THEN LET numeric_value == to_numeric(row[field])
         IN  IF numeric_value.ok
             THEN [field |-> field, shows |-> "number", v |-> numeric_value.v,
                   as |-> FieldFormat(field)]
             ELSE [field |-> field, shows |-> "not_numeric", v |-> row[field].v]
    ELSE [field |-> field, shows |-> "not_provided"]

\* The block printed for one row: the date line and one line per price field.
DailyBlock(row) ==
    [date |-> row.trade_date,
     lines |-> [k \in 1..Len(price_fields) |-> PriceLine(row, price_fields[k])]]

\* get_daily_prices(ts_code, trade_date, start_date, end_date); resp is the
\* answer of pro.daily().
get_daily_prices(srv, isProject, e, ts_code, trade_date, start_date, end_date, fs, resp, nameResp) ==
    LET g == get_tushare_token(srv, isProject, e, fs)
        pro == pro_api(g.token)
        c == Call("daily", g.token, DailyParams(ts_code, trade_date, start_date, end_date), resp)
    IN  IF TokenMissing(g.token) THEN Outcome(g.env, <<>>, TokenError, g.token)
        ELSE IF ~DailyShapeOk(trade_date, start_date, end_date)
        THEN Outcome(g.env, <<>>, [kind |-> "daily_param_error"], g.token)
        ELSE IF resp.raises THEN except_Exception("get_daily_prices", g.env, <<c>>, g.token)
        ELSE IF resp.rows = <<>>
        THEN Outcome(g.env, <<c>>,
                     [kind |-> "daily_not_found", ts_code |-> ts_code,
                      single |-> Truthy(trade_date)], g.token)
        ELSE IF ~HasColumn(resp.rows, "trade_date")
        THEN except_Exception("get_daily_prices", g.env, <<c>>, g.token)
        ELSE LET df_sorted == SortDesc(resp.rows)
                 nm == _get_stock_name(pro, ts_code, nameResp)
             IN  Outcome(g.env, <<c>> \o nm.calls,
                         [kind |-> "prices", tool |-> "get_daily_prices",
                          name |-> nm.name, ts_code |-> ts_code,
                          single |-> Truthy(trade_date),
                          rows |-> [i \in 1..Len(df_sorted) |-> DailyBlock(df_sorted[i])]],
                         g.token)

-----------------------------------------------------------------------------
(* get_trade_calendar, get_weekly_prices, get_monthly_prices.              *)

Min(a, b) == IF a <= b THEN a ELSE b

\* df.head(n)
HeadRows(df, n) == SubSeq(df, 1, Min(n, Len(df)))

CalendarLimit == 100
PriceRowLimit == 20

IsOpenRow(r) == r.is_open = 1

\* get_trade_calendar(exchange, start_date, end_date); resp is the answer of
\* pro.trade_cal().  Parameters that are None are dropped, an empty exchange
\* is forwarded.
get_trade_calendar(e, exchange, start_date, end_date, fs, resp) ==
    LET g == get_tushare_token("server", FALSE, e, fs)
        query_params == {p \in {<<"exchange", exchange>>, <<"start_date", start_date>>,
                                <<"end_date", end_date>>} : p[2] # PyNone}
        c == Call("trade_cal", g.token, query_params, resp)
    IN  IF TokenMissing(g.token) THEN Outcome(g.env, <<>>, TokenError, g.token)
        ELSE IF resp.raises THEN except_Exception("get_trade_calendar", g.env, <<c>>, g.token)
        ELSE IF resp.rows = <<>>
        THEN Outcome(g.env, <<c>>, [kind |-> "calendar_empty"], g.token)
        ELSE IF ~HasColumn(resp.rows, "is_open")
        THEN except_Exception("get_trade_calendar", g.env, <<c>>, g.token)
        ELSE LET trading_days == SelectSeq(resp.rows, IsOpenRow)
                 shown == HeadRows(trading_days, CalendarLimit)
             IN  IF trading_days = <<>>
                 THEN Outcome(g.env, <<c>>, [kind |-> "calendar_no_open_day"], g.token)
                 ELSE IF ~HasColumn(trading_days, "cal_date")
                 THEN except_Exception("get_trade_calendar", g.env, <<c>>, g.token)
                 ELSE Outcome(g.env, <<c>>,
                              [kind |-> "calendar",
                               days |-> [i \in 1..Len(shown) |-> shown[i].cal_date],
                               truncated |-> Len(trading_days) > CalendarLimit],
                              g.token)

RECURSIVE ConcatCalls(_)
\* The requests of a sequence of name lookups, in order.
ConcatCalls(lookups) ==
    IF lookups = <<>> THEN <<>> ELSE Head(lookups).calls \o ConcatCalls(Tail(lookups))

\* The body shared by get_weekly_prices and get_monthly_prices (the two
\* differ in the endpoint and in the labels).  _get_stock_name is called as
\* _get_stock_name(ts_code, pro): the code is passed as the API instance and
\* the client as the code.
PeriodPrices(tool, api, e, ts_code, trade_date, start_date, end_date, fs, resp, nameResp) ==
    LET g == get_tushare_token("server", FALSE, e, fs)
        pro == pro_api(g.token)
        query_params == NonEmpty({<<"ts_code", ts_code>>, <<"trade_date", trade_date>>,
                                  <<"start_date", start_date>>, <<"end_date", end_date>>})
        c == Call(api, g.token, query_params, resp)
    IN  IF TokenMissing(g.token) THEN Outcome(g.env, <<>>, TokenError, g.token)
        ELSE IF ~Truthy(ts_code) /\ ~Truthy(trade_date)
        THEN Outcome(g.env, <<>>, [kind |-> "period_param_error"], g.token)
        ELSE IF resp.raises THEN except_Exception(tool, g.env, <<c>>, g.token)
        ELSE IF resp.rows = <<>>
        THEN Outcome(g.env, <<c>>, [kind |-> "period_not_found", tool |-> tool], g.token)
        ELSE LET df == HeadRows(resp.rows, PriceRowLimit)
                 warn == Len(resp.rows) > PriceRowLimit
             IN  IF Truthy(ts_code) /\ ~Truthy(trade_date)
                 THEN LET nm == _get_stock_name(ts_code, pro, nameResp)
                      IN  Outcome(g.env, <<c>> \o nm.calls,
                                  [kind |-> "prices", tool |-> tool, shape |-> "one_stock",
                                   name |-> nm.name, ts_code |-> ts_code,
                                   rows |-> df, warning |-> warn], g.token)
                 ELSE IF Truthy(trade_date) /\ ~Truthy(ts_code)
                 THEN LET nms == [i \in 1..Len(df) |->
                                     _get_stock_name(PyStr(df[i].ts_code), pro, nameResp)]
                      IN  Outcome(g.env, <<c>> \o ConcatCalls(nms),
                                  [kind |-> "prices", tool |-> tool, shape |-> "one_date",
                                   names |-> [i \in 1..Len(df) |-> nms[i].name],
                                   rows |-> df, warning |-> warn], g.token)
                 ELSE LET nm == _get_stock_name(ts_code, pro, nameResp)
                      IN  Outcome(g.env, <<c>> \o nm.calls,
                                  [kind |-> "prices", tool |-> tool, shape |-> "one_stock_one_date",
                                   name |-> nm.name, ts_code |-> ts_code,
                                   rows |-> <<df[1]>>, warning |-> warn], g.token)

get_weekly_prices(e, ts_code, trade_date, start_date, end_date, fs, resp, nameResp) ==
    PeriodPrices("get_weekly_prices", "weekly", e, ts_code, trade_date, start_date, end_date,
                 fs, resp, nameResp)

get_monthly_prices(e, ts_code, trade_date, start_date, end_date, fs, resp, nameResp) ==
    PeriodPrices("get_monthly_prices", "monthly", e, ts_code, trade_date, start_date, end_date,
                 fs, resp, nameResp)

-----------------------------------------------------------------------------
(* get_start_date_for_n_days.  A date is the number YYYYMMDD.              *)

\* Days of the year 2024 before month m.
DaysBefore(m) ==
    CASE m = 1 -> 0   [] m = 2 -> 31  [] m = 3 -> 60  [] m = 4 -> 91
      [] m = 5 -> 121 [] m = 6 -> 152 [] m = 7 -> 182 [] m = 8 -> 213
      [] m = 9 -> 244 [] m = 10 -> 274 [] m = 11 -> 305 [] m = 12 -> 335
      [] OTHER -> 366

Ordinal(d) == DaysBefore((d \div 100) % 100) + (d % 100)

FromOrdinal(o) ==
    LET m == CHOOSE k \in 1..12 : DaysBefore(k) < o /\ o <= DaysBefore(k + 1)
    IN  20240000 + m * 100 + (o - DaysBefore(m))

\* end_dt - timedelta(days=k), within 2024.
MinusDays(d, k) == FromOrdinal(Ordinal(d) - k)

\* datetime.strptime(end_date, '%Y%m%d') on the date texts of the model:
\* the date, or a ValueError.
strptime(text) ==
    CASE text = "20240110" -> [ok |-> TRUE, date |-> 20240110]
      [] text = "20240105" -> [ok |-> TRUE, date |-> 20240105]
      [] OTHER -> [ok |-> FALSE, error |-> "ValueError"]

\* start_dt_estimated.strftime('%Y%m%d'): the text of a date.
strftime(date) == [type |-> "str", date |-> date]

\* list[i] with Python's negative indices: the element, or an IndexError.
PyIndex(list, i) ==
    LET k == IF i >= 0 THEN i ELSE Len(list) + i
    IN  IF 0 <= k /\ k < Len(list) THEN [ok |-> TRUE, v |-> list[k + 1]]
        ELSE [ok |-> FALSE, error |-> "IndexError"]

RECURSIVE InsertDateDesc(_, _)
InsertDateDesc(d, sorted) ==
    IF sorted = <<>> THEN <<d>>
    ELSE IF Head(sorted) >= d THEN <<Head(sorted)>> \o InsertDateDesc(d, Tail(sorted))
    ELSE <<d>> \o sorted

RECURSIVE SortDatesDesc(_)
\* df['cal_date'].sort_values(ascending=False).tolist()
SortDatesDesc(dates) ==
    IF dates = <<>> THEN <<>>
    ELSE InsertDateDesc(dates[Len(dates)], SortDatesDesc(SubSeq(dates, 1, Len(dates) - 1)))

\* get_start_date_for_n_days(end_date, days_ago); resp is the answer of
\* pro.trade_cal(start_date=..., end_date=..., is_open='1').
get_start_date_for_n_days(srv, isProject, e, end_date, days_ago, fs, resp) ==
    LET g == get_tushare_token(srv, isProject, e, fs)
        end_dt == strptime(end_date.v)
        tool == "get_start_date_for_n_days"
    IN  IF TokenMissing(g.token) THEN Outcome(g.env, <<>>, TokenError, g.token)
        ELSE IF ~end_dt.ok THEN except_Exception(tool, g.env, <<>>, g.token)
        ELSE LET estimated_days == 2 * days_ago   \* int(days_ago / 0.5)
                 start_est == MinusDays(end_dt.date, estimated_days)
                 c == Call("trade_cal", g.token,
                           {<<"start_date", strftime(start_est)>>, <<"end_date", end_date>>,
                            <<"is_open", PyStr("1")>>}, resp)
             IN  IF resp.raises THEN except_Exception(tool, g.env, <<c>>, g.token)
                 ELSE IF resp.rows = <<>> \/ Len(resp.rows) < days_ago
                 THEN Outcome(g.env, <<c>>,
                              [kind |-> "not_enough_days", found |-> Len(resp.rows),
                               needed |-> days_ago], g.token)
                 ELSE IF ~HasColumn(resp.rows, "cal_date")
                 THEN except_Exception(tool, g.env, <<c>>, g.token)
                 ELSE LET trading_days ==
                              SortDatesDesc([i \in 1..Len(resp.rows) |-> resp.rows[i].cal_date])
                          start_date_actual == PyIndex(trading_days, days_ago - 1)
                      IN  IF ~start_date_actual.ok
                          THEN except_Exception(tool, g.env, <<c>>, g.token)
                          ELSE Outcome(g.env, <<c>>,
                                       [kind |-> "start_date", end_date |-> end_date,
                                        days_ago |-> days_ago,
                                        start |-> start_date_actual.v], g.token)

-----------------------------------------------------------------------------
(* POST /tools/setup_tushare_token and the intraday.py startup event.      *)

\* A bug: the isinstance test is left out.
BadPayloadToken_OnlyFalsy(token) == ~Truthy(token)

\* The check of payload.get("token"): missing, empty or not a string.
BadPayloadToken(token) == ~Truthy(token) \/ token.type # "str"

HttpRejected(e) ==
    [env |-> e, calls |-> <<>>, result |-> [kind |-> "http", status |-> 400],
     seen |-> NotCalled, setOk |-> FALSE, setCalled |-> FALSE]

\* server.py api_setup_tushare_token: the tool's text is the message.
api_setup_tushare_token_server(e, token, fs, setKeyRaises, setTokenRaises, probe) ==
    IF BadPayloadToken(token) THEN HttpRejected(e)
    ELSE LET r == setup_tushare_token(e, token, fs, setKeyRaises, setTokenRaises, probe)
         IN  [r EXCEPT !.result = [kind |-> "http", status |-> 200, state |-> "success",
                                   message |-> r.result]]

\* intraday.py api_setup_tushare_token: set, read back, build the client.
api_setup_tushare_token_intraday(isProject, e, token, fs, fs2, setKeyRaises, setTokenRaises) ==
    IF BadPayloadToken(token) THEN HttpRejected(e)
    ELSE LET s == set_tushare_token("intraday", isProject, e, token, fs, setKeyRaises, setTokenRaises)
             g == get_tushare_token("intraday", isProject, s.env, fs2)
         IN  [env |-> g.env, calls |-> <<>>,
              result |-> [kind |-> "http", status |-> 200,
                          state |-> IF Truthy(g.token) THEN "success" ELSE "warning"],
              seen |-> g.token, setOk |-> s.ok, setCalled |-> TRUE]

\* intraday.py startup_event: get_tushare_token(), then ts.set_token.
startup_event(isProject, e, fs, setTokenRaises) ==
    LET g == get_tushare_token("intraday", isProject, e, fs)
    IN  IF Truthy(g.token) /\ ~setTokenRaises
        THEN [g.env EXCEPT !.libToken = g.token]
        ELSE g.env

-----------------------------------------------------------------------------
(* refer.py: normalize_stock_code, get_pe_percentile and its decorator.    *)
(* A text is [type |-> "str", chars |-> <<c1, ...>>]; a character is a      *)
(* one-character string, "LF" the newline and "U+0663" the ARABIC-INDIC     *)
(* DIGIT THREE.                                                            *)

Text(chars) == [type |-> "str", chars |-> chars]

IsSpace(c) == c \in {" ", "LF"}

\* \d of a str pattern: any Unicode decimal digit.
IsDigit(c) == c \in {"0", "7", "U+0663"}

RECURSIVE lstrip(_)
lstrip(chars) ==
    IF chars # <<>> /\ IsSpace(Head(chars)) THEN lstrip(Tail(chars)) ELSE chars

RECURSIVE rstrip(_)
rstrip(chars) ==
    IF chars # <<>> /\ IsSpace(chars[Len(chars)])
    THEN rstrip(SubSeq(chars, 1, Len(chars) - 1)) ELSE chars

\* str.strip()
strip(chars) == rstrip(lstrip(chars))

\* str.lower()
lower(chars) == [i \in 1..Len(chars) |-> Fold(chars[i])]

\* The number of digits the pattern asks for: \d{6}.
CodeDigits == 6

\* re.match(r'^(sh|sz)\d{6}$', code): "$" matches at the end and before a
\* newline that ends the text.
re_match_code(chars) ==
    /\ Len(chars) >= 2 + CodeDigits
    /\ SubSeq(chars, 1, 2) \in {<<"s", "h">>, <<"s", "z">>}
    /\ \A i \in 3..(2 + CodeDigits) : IsDigit(chars[i])
    /\ \/ Len(chars) = 2 + CodeDigits
       \/ Len(chars) = 3 + CodeDigits /\ chars[3 + CodeDigits] = "LF"

\* A function's way out: a value, or an exception.
Return(v) == [raised |-> FALSE, value |-> v]
Raise(err) == [raised |-> TRUE, error |-> err]

\* A bug: the code is lower-cased but not stripped.
normalize_stock_code_NoStrip(code) ==
    IF code.type # "str" THEN Raise("AttributeError")
    ELSE LET c == lower(code.chars)
         IN  IF re_match_code(c) THEN Return(Text(c)) ELSE Return(PyNone)

\* normalize_stock_code(code): code.strip().lower() when it matches, else
\* None; a code without a strip method raises AttributeError.
normalize_stock_code(code) ==
    IF code.type # "str" THEN Raise("AttributeError")
    ELSE LET c == lower(strip(code.chars))
         IN  IF re_match_code(c) THEN Return(Text(c)) ELSE Return(PyNone)

\* A bug: the value is cut after four decimals instead of rounded.
Format4f_Truncate(x) == x.units

\* f"{pe_value:.4f}" of a float q * 10^-4 + rest, rest below one unit: the
\* number of 10^-4 units printed (round half to even on the exact value).
Format4f(x) ==
    CASE x.rest \in {"zero", "below_half"} -> x.units
      [] x.rest = "above_half"             -> x.units + 1
      [] OTHER -> IF x.units % 2 = 0 THEN x.units ELSE x.units + 1

Float(units, rest) == [type |-> "float", units |-> units, rest |-> rest]

\* stock_data.get('pe_percentile_3y') on the first row of the answer; a row
\* that is no mapping raises AttributeError.
RowGet(row) ==
    IF row.type # "dict" THEN Raise("AttributeError")
    ELSE IF "pe_percentile_3y" \in DOMAIN row.items
         THEN Return(row.items["pe_percentile_3y"]) ELSE Return(PyNone)

\* get_pe_percentile(stock_code) without its decorators; resp is the answer
\* of supabase.table('stocks').select(...).eq('stock_code', code).execute().
get_pe_percentile(stock_code, resp) ==
    LET n == normalize_stock_code(stock_code)
    IN  IF n.raised THEN [calls |-> <<>>, out |-> Raise(n.error)]
        ELSE IF ~(n.value.type = "str" /\ n.value.chars # <<>>)
        THEN [calls |-> <<>>, out |-> Return([kind |-> "format_error", echo |-> stock_code])]
        ELSE LET c == Call("supabase.stocks", PyNone, {<<"stock_code", n.value>>}, resp)
             IN  IF resp.raises THEN [calls |-> <<c>>, out |-> Raise("APIError")]
                 ELSE IF resp.rows = <<>>
                 THEN [calls |-> <<c>>,
                       out |-> Return([kind |-> "stock_not_found", echo |-> stock_code])]
                 ELSE LET pe_value == RowGet(resp.rows[1])
                      IN  [calls |-> <<c>>,
                           out |-> IF pe_value.raised THEN Raise(pe_value.error)
                                   ELSE IF pe_value.value = PyNone
                                   THEN Return([kind |-> "no_pe_data", echo |-> stock_code])
                                   ELSE IF pe_value.value.type # "float"
                                   THEN Raise("ValueError")   \* format code 'f' on a str
                                   ELSE Return([kind |-> "pe_value", echo |-> stock_code,
                                                units4 |-> Format4f(pe_value.value)])]

\* A bug: `except APIError`, so that other exceptions leave the wrapper.
supabase_tool_handler_Narrow(r) ==
    IF r.out.raised
    THEN [calls |-> r.calls,
          result |-> IF r.out.error = "APIError"
                     THEN [kind |-> "query_failed", error |-> r.out.error]
                     ELSE [kind |-> "exception", error |-> r.out.error]]
    ELSE [calls |-> r.calls, result |-> r.out.value]

\* supabase_tool_handler(func).wrapper: the function's value, or the
\* "query failed: <error>" text for any Exception it raises.
supabase_tool_handler(r) ==
    IF r.out.raised
    THEN [calls |-> r.calls, result |-> [kind |-> "query_failed", error |-> r.out.error]]
    ELSE [calls |-> r.calls, result |-> r.out.value]

\* The registered MCP tool: @mcp.tool() over @supabase_tool_handler.
pe_tool(stock_code, resp) == supabase_tool_handler(get_pe_percentile(stock_code, resp))

-----------------------------------------------------------------------------
(* MCP over SSE: the routes each file registers on its FastAPI app.  A path *)
(* is the sequence of its segments; a trailing "" is a trailing slash.      *)

MCP_BASE_PATH == <<"sse">>

\* f"{MCP_BASE_PATH}/messages/"
messages_full_path == MCP_BASE_PATH \o <<"messages", "">>

\* SseServerTransport(endpoint): the transport keeps the endpoint it will
\* advertise to the client.
SseServerTransport(endpoint) == [type |-> "SseServerTransport", endpoint |-> endpoint]

\* The module-level sse_transport of server.py and refer.py.
sse_transport == SseServerTransport(messages_full_path)

Route(methods, path, endpoint) ==
    [kind |-> "route", methods |-> methods, path |-> path, endpoint |-> endpoint]
Mount(path, endpoint) ==
    [kind |-> "mount", methods |-> {"GET", "POST"}, path |-> path, endpoint |-> endpoint]

\* The routes of `app`, in the order of registration.
Routes(srv) ==
    CASE srv = "server" ->
           <<Route({"GET"}, <<"">>, "read_root"),
             Route({"POST"}, <<"tools", "setup_tushare_token">>, "api_setup_tushare_token"),
             Route({"GET"}, MCP_BASE_PATH, "handle_mcp_sse_handshake"),
             Mount(messages_full_path, "handle_post_message")>>
      [] srv = "refer" ->
           <<Route({"GET"}, <<"">>, "health_check"),
             Route({"GET"}, MCP_BASE_PATH, "handle_mcp_sse_handshake"),
             Mount(messages_full_path, "handle_post_message")>>
      [] OTHER ->
           <<Route({"GET"}, <<"">>, "read_root"),
             Route({"POST"}, <<"tools", "setup_tushare_token">>, "api_setup_tushare_token"),
             Route({"GET"}, <<"sse">>, "sse_endpoint")>>

\* Starlette: a route matches its own path; a mount matches every path
\* under its path (taken without the trailing slash).
PathMatches(r, path) ==
    IF r.kind = "route" THEN path = r.path
    ELSE LET base == SubSeq(r.path, 1, Len(r.path) - 1)
         IN  Len(path) > Len(base) /\ SubSeq(path, 1, Len(base)) = base

\* The endpoint the router hands a request to: the first full match, else
\* 405 when only the path matched, else 404.
Dispatch(srv, method, path) ==
    LET rs == Routes(srv)
        full == {i \in 1..Len(rs) : PathMatches(rs[i], path) /\ method \in rs[i].methods}
        partial == {i \in 1..Len(rs) : PathMatches(rs[i], path)}
    IN  IF full # {} THEN rs[CHOOSE i \in full : \A j \in full : i <= j].endpoint
        ELSE IF partial # {} THEN "405" ELSE "404"

HttpStatus(status) == [kind |-> "http", status |-> status]

\* handle_mcp_sse_handshake: connect_sse opens the event stream and sends
\* the `endpoint` event with the transport's endpoint; the MCP server then
\* runs on the two streams.
handle_mcp_sse_handshake(transport) ==
    [open |-> TRUE,
     result |-> [kind |-> "sse_stream", endpoint |-> transport.endpoint,
                 runs |-> "mcp._mcp_server.run"]]

\* The attributes of a FastMCP instance the three files use or could use.
FastMCPAttributes == {"tool", "prompt", "resource", "run", "sse_app", "_mcp_server"}

\* intraday.py sse_endpoint: SseServerTransport(request), then
\* mcp.handle_request(transport), which FastMCP does not have: the
\* AttributeError becomes the framework's 500 response.
sse_endpoint(request) ==
    LET transport == SseServerTransport(request)
    IN  IF "handle_request" \in FastMCPAttributes
        THEN [open |-> TRUE,
              result |-> [kind |-> "sse_stream", endpoint |-> transport.endpoint,
                          runs |-> "mcp.handle_request"]]
        ELSE [open |-> FALSE, result |-> HttpStatus(500)]

\* sse_transport.handle_post_message: 400 without a session id, 404 for an
\* unknown session, else the message is accepted.
handle_post_message(session) ==
    CASE session = "missing" -> HttpStatus(400)
      [] session = "unknown" -> HttpStatus(404)
      [] OTHER               -> HttpStatus(202)

\* GET on the base path.
GetSse(srv) ==
    LET h == Dispatch(srv, "GET", MCP_BASE_PATH)
    IN  CASE h = "handle_mcp_sse_handshake" -> handle_mcp_sse_handshake(sse_transport)
          [] h = "sse_endpoint" -> sse_endpoint([type |-> "Request", path |-> MCP_BASE_PATH])
          [] OTHER -> [open |-> FALSE, result |-> HttpStatus(404)]

\* POST of a client message to `path`.
PostMessage(srv, path, session) ==
    LET h == Dispatch(srv, "POST", path)
    IN  CASE h = "handle_post_message" -> handle_post_message(session)
          [] h = "405" -> HttpStatus(405)
          [] OTHER -> HttpStatus(404)

-----------------------------------------------------------------------------
(* The inputs of the model.                                                *)

MaxRows == 2       \* rows of a table a remote request returns
MaxPad == 1        \* whitespace characters on either side of a stock code
MaxDaysAgo == 2    \* |days_ago|
MaxClients == 2    \* clients with a set_tushare_token call in progress

SeqsUpTo(S, n) == UNION {[1..k -> S] : k \in 0..n}

\* The rows of a DataFrame have the same columns.
SameColumns(t) == \A i, j \in 1..Len(t) : DOMAIN t[i] = DOMAIN t[j]

Answers(rows) ==
    {Raises} \cup {Table(t) : t \in {u \in SeqsUpTo(rows, MaxRows) : SameColumns(u)}}

TokenArgs == {PyNone, PyStr("")} \cup Tokens
PayloadTokens == {PyNone, PyStr(""), PyInt(0), PyInt(123)} \cup Tokens
TsCode == PyStr("600000.SH")
OptDate == {PyNone, PyStr(""), PyStr("20240105")}
OptCode == {PyNone, PyStr(""), TsCode}

\* Rows of pro.daily: with all columns (numbers, or a NaN and a text among
\* them), with the close column only, and without the trade_date column.
FullRow(d, odd) ==
    [trade_date |-> d,
     open |-> IF odd THEN NaN ELSE NumCell(1050),
     high |-> IF odd THEN TextCell("n/a") ELSE NumCell(1100),
     low |-> NumCell(1000), close |-> NumCell(1080),
     vol |-> NumCell(12345600), amount |-> NumCell(13300000)]
DailyRows ==
    {FullRow(d, odd) : d \in {20240104, 20240105}, odd \in BOOLEAN}
    \cup {[trade_date |-> d, close |-> NumCell(1080)] : d \in {20240104, 20240105}}
    \cup {[close |-> NumCell(1080)]}
PeriodRows == {[ts_code |-> c, trade_date |-> 20240105] : c \in {"600000.SH", "000001.SZ"}}
CalendarRows ==
    {[cal_date |-> 20240105, is_open |-> o] : o \in {0, 1}}
    \cup {[cal_date |-> 20240105], [is_open |-> 1]}
OpenDays == {[cal_date |-> d] : d \in {20240108, 20240109, 20240110}} \cup {[is_open |-> 1]}
StockRows ==
    {[ts_code |-> <<"6", ".", "S", "H">>, name |-> <<"P", "F">>],
     [ts_code |-> <<"0", "x", "S", "Z">>, name |-> <<"s", "h">>],
     [ts_code |-> <<"6", ".", "S", "H">>]}
Keywords == {<<>>, <<"6">>, <<"s", "h">>, <<".", "S">>, <<"(">>, <<"9">>}
EndDates == {PyStr("20240110"), PyStr("2024-01-10")}
DaysAgoValues == (0 - MaxDaysAgo)..MaxDaysAgo

HeadChars == {"s", "h", "z", "S", "x"}
FillChars == {"0", "U+0663"}

\* n times the character c.
Repeat(c, n) == [i \in 1..n |-> c]

\* The digit part of a code: one digit repeated, at most one place spoiled.
Bodies ==
    UNION {
        {Repeat(d, k) : d \in FillChars}
        \cup {[Repeat(d, k) EXCEPT ![p] = "x"] : d \in FillChars, p \in 1..k}
        : k \in (CodeDigits - 1)..(CodeDigits + 1)}

Heads == UNION {[1..k -> HeadChars] : k \in 1..2}
LeadPads == {Repeat(" ", n) : n \in 0..MaxPad}
TrailPads == LeadPads \cup {Repeat("LF", n) : n \in 1..MaxPad}

StockCodes ==
    {Text(l \o h \o b \o t) : l \in LeadPads, h \in Heads, b \in Bodies, t \in TrailPads}
    \cup {PyNone, PyInt(600739)}

Dict(items) == [type |-> "dict", items |-> items]
PeValues ==
    {PyNone, PyStr("n/a"), Float(1233, "half"), Float(1234, "half"),
     Float(1234, "below_half"), Float(1234, "above_half"), Float(0, "zero")}
DbRows ==
    {Dict([k \in {"stock_code"} |-> PyStr("sh000000")]), [type |-> "list"]}
    \cup {Dict([k \in {"stock_code", "pe_percentile_3y"} |->
                   IF k = "stock_code" THEN PyStr("sh000000") ELSE v]) : v \in PeValues}
DbAnswers ==
    {Raises, Table(<<>>)} \cup {Table(<<r>>) : r \in DbRows}
    \cup {Table(<<r, Dict([k \in {"stock_code"} |-> PyStr("sh000000")])>>) : r \in DbRows}

-----------------------------------------------------------------------------
(* The state machine.                                                      *)

Env == [osEnv |-> osEnv, envFile |-> envFile, libToken |-> libToken]

NoInvocation == [tool |-> "none"]

Clients == 1..MaxClients
\* A client's call of set_tushare_token: where it stands, its argument, and
\* (history) whether a statement of one of the client's calls has raised.
NotCalling == [at |-> "idle", token |-> PyNone, raised |-> FALSE]
NoSetCalls == [c \in Clients |-> NotCalling]
NoResult == [kind |-> "none"]

\* The process after import: module-level code has run, no request yet.
\* intraday.py picks the project .env when it exists and loads it at once.
Init ==
    /\ server \in {"server", "intraday", "refer"}
    /\ projectEnv \in (IF server = "intraday" THEN BOOLEAN ELSE {FALSE})
    /\ started = (server # "intraday")
    /\ envFile \in (IF server = "refer" THEN {NoFile}
                    ELSE IF projectEnv THEN FileValues \ {NoFile} ELSE FileValues)
    /\ \E env0 \in (IF server = "refer" THEN {PyNone} ELSE EnvValues) :
           osEnv = IF projectEnv THEN load_dotenv(env0, envFile) ELSE env0
    /\ libToken = PyNone
    /\ inv = NoInvocation
    /\ calls = <<>>
    /\ result = NoResult
    /\ seen = NotCalled
    /\ persisted = PyNone
    /\ sseOpen = FALSE
    /\ setCalls = NoSetCalls
    /\ pc = "idle"

\* The invocation i ends with outcome o.
Serve(i, o) ==
    /\ pc' = "done"
    /\ inv' = i
    /\ calls' = o.calls
    /\ result' = o.result
    /\ seen' = o.seen
    /\ osEnv' = o.env.osEnv
    /\ envFile' = o.env.envFile
    /\ libToken' = o.env.libToken
    /\ UNCHANGED <<server, projectEnv, started, sseOpen, setCalls>>

\* History of set_tushare_token: the token of a call that ended without
\* error; nothing after a call that raised inside.
Persist(o, token) ==
    persisted' = IF ~o.setCalled THEN persisted ELSE IF o.setOk THEN token ELSE PyNone

Ready(servers) == pc = "idle" /\ started /\ server \in servers

SetupTushareToken ==
    /\ Ready({"server"})
    /\ \E token \in TokenArgs, fs \in FsOutcomes, sk \in BOOLEAN, st \in BOOLEAN,
          probe \in ProbeResponses :
          LET o == setup_tushare_token(Env, token, fs, sk, st, probe)
          IN  /\ Serve([tool |-> "setup_tushare_token", token |-> token, fs |-> fs], o)
              /\ Persist(o, token)

CheckTokenStatus ==
    /\ Ready({"server"})
    /\ \E fs \in FsOutcomes, probe \in ProbeResponses :
          Serve([tool |-> "check_token_status", fs |-> fs], check_token_status(Env, fs, probe))
    /\ UNCHANGED persisted

ApiSetupServer ==
    /\ Ready({"server"})
    /\ \E token \in PayloadTokens, fs \in FsOutcomes, sk \in BOOLEAN, st \in BOOLEAN,
          probe \in ProbeResponses :
          LET o == api_setup_tushare_token_server(Env, token, fs, sk, st, probe)
          IN  /\ Serve([tool |-> "api_setup_tushare_token", token |-> token, fs |-> fs], o)
              /\ Persist(o, token)

ApiSetupIntraday ==
    /\ Ready({"intraday"})
    /\ \E token \in PayloadTokens, fs \in FsOutcomes, fs2 \in FsOutcomes,
          sk \in BOOLEAN, st \in BOOLEAN :
          LET o == api_setup_tushare_token_intraday(projectEnv, Env, token, fs, fs2, sk, st)
          IN  /\ Serve([tool |-> "api_setup_tushare_token", token |-> token, fs |-> fs2], o)
              /\ Persist(o, token)

StartupEvent ==
    /\ pc = "idle" /\ server = "intraday" /\ ~started
    /\ \E fs \in FsOutcomes, st \in BOOLEAN :
          LET e == startup_event(projectEnv, Env, fs, st)
          IN  /\ osEnv' = e.osEnv
              /\ envFile' = e.envFile
              /\ libToken' = e.libToken
    /\ started' = TRUE
    /\ UNCHANGED <<server, projectEnv, inv, calls, result, seen, persisted, sseOpen, setCalls, pc>>

SearchStocks ==
    /\ Ready({"server", "intraday"})
    /\ \E keyword \in Keywords, fs \in FsOutcomes, resp \in Answers(StockRows) :
          Serve([tool |-> "search_stocks", keyword |-> keyword, fs |-> fs],
                search_stocks(server, projectEnv, Env, keyword, fs, resp))
    /\ UNCHANGED persisted

GetDailyPrices ==
    /\ Ready({"server", "intraday"})
    /\ \E trade_date \in OptDate, start_date \in OptDate, end_date \in OptDate,
          fs \in FsOutcomes, resp \in Answers(DailyRows), nameResp \in NameResponses :
          Serve([tool |-> "get_daily_prices", ts_code |-> TsCode, trade_date |-> trade_date,
                 start_date |-> start_date, end_date |-> end_date, fs |-> fs],
                get_daily_prices(server, projectEnv, Env, TsCode, trade_date, start_date,
                                 end_date, fs, resp, nameResp))
    /\ UNCHANGED persisted

GetTradeCalendar ==
    /\ Ready({"server"})
    /\ \E exchange \in {PyStr(""), PyStr("SSE")}, start_date \in {PyNone, PyStr("20240101")},
          end_date \in {PyNone, PyStr("20240131")}, fs \in FsOutcomes,
          resp \in Answers(CalendarRows) :
          Serve([tool |-> "get_trade_calendar", exchange |-> exchange,
                 start_date |-> start_date, end_date |-> end_date, fs |-> fs],
                get_trade_calendar(Env, exchange, start_date, end_date, fs, resp))
    /\ UNCHANGED persisted

GetWeeklyPrices ==
    /\ Ready({"server"})
    /\ \E ts_code \in OptCode, trade_date \in OptDate, start_date \in OptDate,
          end_date \in OptDate, fs \in FsOutcomes, resp \in Answers(PeriodRows),
          nameResp \in NameResponses :
          Serve([tool |-> "get_weekly_prices", ts_code |-> ts_code, trade_date |-> trade_date,
                 start_date |-> start_date, end_date |-> end_date, fs |-> fs],
                get_weekly_prices(Env, ts_code, trade_date, start_date, end_date, fs, resp,
                                  nameResp))
    /\ UNCHANGED persisted

GetMonthlyPrices ==
    /\ Ready({"server"})
    /\ \E ts_code \in OptCode, trade_date \in OptDate, start_date \in OptDate,
          end_date \in OptDate, fs \in FsOutcomes, resp \in Answers(PeriodRows),
          nameResp \in NameResponses :
          Serve([tool |-> "get_monthly_prices", ts_code |-> ts_code, trade_date |-> trade_date,
                 start_date |-> start_date, end_date |-> end_date, fs |-> fs],
                get_monthly_prices(Env, ts_code, trade_date, start_date, end_date, fs, resp,
                                   nameResp))
    /\ UNCHANGED persisted

GetStartDateForNDays ==
    /\ Ready({"server", "intraday"})
    /\ \E end_date \in EndDates, days_ago \in DaysAgoValues, fs \in FsOutcomes,
          resp \in Answers(OpenDays) :
          Serve([tool |-> "get_start_date_for_n_days", end_date |-> end_date,
                 days_ago |-> days_ago, fs |-> fs],
                get_start_date_for_n_days(server, projectEnv, Env, end_date, days_ago, fs, resp))
    /\ UNCHANGED persisted

GetPePercentile ==
    /\ Ready({"refer"})
    /\ \E stock_code \in StockCodes, resp \in DbAnswers :
          LET o == pe_tool(stock_code, resp)
          IN  Serve([tool |-> "get_pe_percentile", stock_code |-> stock_code],
                    [env |-> Env, calls |-> o.calls, result |-> o.result, seen |-> NotCalled])
    /\ UNCHANGED persisted

\* A client opens the SSE stream: GET /sse.
SseConnect ==
    /\ pc = "idle" /\ started /\ ~sseOpen
    /\ LET o == GetSse(server)
       IN  /\ sseOpen' = o.open
           /\ result' = o.result
    /\ inv' = [tool |-> "GET /sse"]
    /\ calls' = <<>>
    /\ seen' = NotCalled
    /\ pc' = "done"
    /\ UNCHANGED <<server, projectEnv, started, osEnv, envFile, libToken, persisted, setCalls>>

\* A client posts a message to the path of the messages endpoint; it holds
\* a session id only when a stream is open.
SsePostMessage ==
    /\ pc = "idle" /\ started
    /\ \E session \in {"missing", "unknown"} \cup (IF sseOpen THEN {"current"} ELSE {}) :
          /\ inv' = [tool |-> "POST /sse/messages/", session |-> session]
          /\ result' = PostMessage(server, messages_full_path, session)
    /\ calls' = <<>>
    /\ seen' = NotCalled
    /\ pc' = "done"
    /\ UNCHANGED <<server, projectEnv, started, osEnv, envFile, libToken, persisted, sseOpen,
                   setCalls>>

\* The client goes away; the stream is closed.
SseDisconnect ==
    /\ pc = "idle" /\ sseOpen
    /\ sseOpen' = FALSE
    /\ UNCHANGED <<server, projectEnv, started, osEnv, envFile, libToken, inv, calls, result,
                   seen, persisted, setCalls, pc>>

\* The answer is sent; the server waits for the next request.
Complete ==
    /\ pc = "done"
    /\ pc' = "idle"
    /\ inv' = NoInvocation
    /\ calls' = <<>>
    /\ result' = NoResult
    /\ seen' = NotCalled
    /\ UNCHANGED <<server, projectEnv, started, osEnv, envFile, libToken, persisted, sseOpen,
                   setCalls>>

Next ==
    \/ SetupTushareToken
    \/ CheckTokenStatus
    \/ ApiSetupServer
    \/ ApiSetupIntraday
    \/ StartupEvent
    \/ SearchStocks
    \/ GetDailyPrices
    \/ GetTradeCalendar
    \/ GetWeeklyPrices
    \/ GetMonthlyPrices
    \/ GetStartDateForNDays
    \/ GetPePercentile
    \/ SseConnect
    \/ SsePostMessage
    \/ SseDisconnect
    \/ Complete

Spec == Init /\ [][Next]_vars

-----------------------------------------------------------------------------
(* set_tushare_token statement by statement.  The dotenv file and the       *)
(* library's token are shared by the callers; nothing orders the statements *)
(* of two calls in progress (the code takes no lock).                       *)

InitSetToken ==
    /\ server \in {"server", "intraday"}
    /\ projectEnv = FALSE
    /\ started = TRUE
    /\ envFile \in {NoFile, FileWith(PyNone)}
    /\ osEnv = PyNone
    /\ libToken = PyNone
    /\ inv = NoInvocation
    /\ calls = <<>>
    /\ result = NoResult
    /\ seen = NotCalled
    /\ persisted = PyNone
    /\ sseOpen = FALSE
    /\ setCalls = NoSetCalls
    /\ pc = "idle"

SetTokenFrame == UNCHANGED <<server, projectEnv, started, inv, calls, result, seen, sseOpen, pc>>

\* set_tushare_token(token) is entered.
SetTokenEnter(c) ==
    /\ setCalls[c].at = "idle"
    /\ \E token \in Tokens :
          setCalls' = [setCalls EXCEPT ![c].at = "entered", ![c].token = token]
    /\ UNCHANGED <<osEnv, envFile, libToken, persisted>>
    /\ SetTokenFrame

\* init_env_file()
SetTokenInitEnv(c) ==
    /\ setCalls[c].at = "entered"
    /\ \E fs \in FsOutcomes :
          LET e == init_env_file(server, projectEnv, Env, fs)
          IN  /\ osEnv' = e.osEnv
              /\ envFile' = e.envFile
    /\ setCalls' = [setCalls EXCEPT ![c].at = "in_try"]
    /\ UNCHANGED <<libToken, persisted>>
    /\ SetTokenFrame

\* set_key(ENV_FILE, "TUSHARE_TOKEN", token), or its exception, which ends
\* the try block.
SetTokenSetKey(c) ==
    /\ setCalls[c].at = "in_try"
    /\ \E raises \in BOOLEAN :
          IF raises
          THEN /\ setCalls' = [setCalls EXCEPT ![c].at = "failed", ![c].raised = TRUE]
               /\ UNCHANGED envFile
          ELSE /\ setCalls' = [setCalls EXCEPT ![c].at = "key_set"]
               /\ envFile' = set_key(envFile, setCalls[c].token)
    /\ UNCHANGED <<osEnv, libToken, persisted>>
    /\ SetTokenFrame

\* ts.set_token(token), or its exception.
SetTokenLibrary(c) ==
    /\ setCalls[c].at = "key_set"
    /\ \E raises \in BOOLEAN :
          IF raises
          THEN /\ setCalls' = [setCalls EXCEPT ![c].at = "failed", ![c].raised = TRUE]
               /\ UNCHANGED libToken
          ELSE /\ setCalls' = [setCalls EXCEPT ![c].at = "stored"]
               /\ libToken' = setCalls[c].token
    /\ UNCHANGED <<osEnv, envFile, persisted>>
    /\ SetTokenFrame

\* The call returns (None), after the except clause when a statement raised.
SetTokenReturn(c) ==
    /\ setCalls[c].at \in {"stored", "failed"}
    /\ persisted' = IF setCalls[c].at = "stored" THEN setCalls[c].token ELSE PyNone
    /\ setCalls' = [setCalls EXCEPT ![c].at = "idle", ![c].token = PyNone]
    /\ UNCHANGED <<osEnv, envFile, libToken>>
    /\ SetTokenFrame

NextSetToken ==
    \E c \in Clients :
        \/ SetTokenEnter(c)
        \/ SetTokenInitEnv(c)
        \/ SetTokenSetKey(c)
        \/ SetTokenLibrary(c)
        \/ SetTokenReturn(c)

SpecSetToken == InitSetToken /\ [][NextSetToken]_vars

-----------------------------------------------------------------------------
(* Properties.                                                             *)

Served(tool) == pc = "done" /\ inv.tool = tool

\* The tools that fetch data from Tushare.
DataTools ==
    {"search_stocks", "get_daily_prices", "get_trade_calendar", "get_weekly_prices",
     "get_monthly_prices", "get_start_date_for_n_days"}

\* C1: a data tool whose get_tushare_token() yields None or "" returns the
\* token error and sends no request, whatever its other arguments are.
C1_TokenGating ==
    (pc = "done" /\ inv.tool \in DataTools /\ seen \in {PyNone, PyStr("")})
        => (result = TokenError /\ calls = <<>>)

\* C1 witness: get_daily_prices without a token and with an invalid
\* parameter shape answers with the token error, not the parameter error.
C1_Witness ==
    /\ Served("get_daily_prices")
    /\ seen = PyStr("")
    /\ inv.trade_date = PyNone /\ inv.start_date = PyNone /\ inv.end_date = PyNone
    /\ result = TokenError

\* C2: once set_tushare_token has stored a token without error, the next
\* get_tushare_token() (its own filesystem steps succeeding) returns it.
C2_ReadBack ==
    (pc = "done" /\ seen # NotCalled /\ inv.fs = "ok" /\ persisted # PyNone)
        => seen = persisted

\* The remote endpoint a tool is a formatter of.
PrimaryApi(tool) ==
    CASE tool = "search_stocks" -> "stock_basic"
      [] tool = "get_daily_prices" -> "daily"
      [] tool = "get_trade_calendar" -> "trade_cal"
      [] tool = "get_weekly_prices" -> "weekly"
      [] tool = "get_monthly_prices" -> "monthly"
      [] tool = "get_start_date_for_n_days" -> "trade_cal"
      [] OTHER -> "supabase.stocks"

Given(x) == x # PyNone /\ x # PyStr("")

\* The text between the first and the last character that is not whitespace.
Trimmed(chars) ==
    LET solid == {i \in 1..Len(chars) : ~IsSpace(chars[i])}
    IN  IF solid = {} THEN <<>>
        ELSE SubSeq(chars, CHOOSE i \in solid : \A j \in solid : i <= j,
                           CHOOSE i \in solid : \A j \in solid : i >= j)

\* 'sh' or 'sz', then exactly six decimal digits, and nothing else.
WellFormed(chars) ==
    /\ Len(chars) = 8
    /\ chars[1] = "s"
    /\ chars[2] \in {"h", "z"}
    /\ \A i \in 3..8 : IsDigit(chars[i])

\* The code of a get_pe_percentile request as the claims describe it.
Canonical(code) == [i \in 1..Len(Trimmed(code.chars)) |-> Fold(Trimmed(code.chars)[i])]

\* The invocation got past the token check and the parameter checks.
PassedChecks ==
    CASE inv.tool = "get_daily_prices" ->
             /\ Given(seen)
             /\ \/ Given(inv.trade_date) /\ ~Given(inv.start_date) /\ ~Given(inv.end_date)
                \/ ~Given(inv.trade_date) /\ Given(inv.start_date) /\ Given(inv.end_date)
      [] inv.tool \in {"get_weekly_prices", "get_monthly_prices"} ->
             Given(seen) /\ (Given(inv.ts_code) \/ Given(inv.trade_date))
      [] inv.tool = "get_start_date_for_n_days" ->
             Given(seen) /\ inv.end_date = PyStr("20240110")
      [] inv.tool \in {"search_stocks", "get_trade_calendar"} -> Given(seen)
      [] inv.tool = "get_pe_percentile" ->
             inv.stock_code.type = "str" /\ WellFormed(Canonical(inv.stock_code))
      [] OTHER -> FALSE

\* C3 as stated: an invocation that passes the checks sends exactly one
\* remote request.
C3_ExactlyOneCall ==
    (pc = "done" /\ PassedChecks) => Len(calls) = 1

\* C3 amended: an invocation that passes the checks sends exactly one
\* request to the tool's own endpoint, first; get_daily_prices sends one more,
\* the stock_basic name lookup, exactly when pro.daily returned rows that
\* have the trade_date column they are sorted by; no other request is sent
\* (none per returned row).
C3_CallCount ==
    (pc = "done" /\ PassedChecks) =>
        /\ Len(calls) >= 1
        /\ calls[1].api = PrimaryApi(inv.tool)
        /\ IF /\ inv.tool = "get_daily_prices"
              /\ ~calls[1].answer.raises
              /\ calls[1].answer.rows # <<>>
              /\ HasColumn(calls[1].answer.rows, "trade_date")
           THEN Len(calls) = 2 /\ calls[2].api = "stock_basic"
           ELSE Len(calls) = 1

\* C3 witness: get_daily_prices over a table of two rows sent two requests.
C3_Witness ==
    /\ Served("get_daily_prices")
    /\ Len(calls) = 2
    /\ Len(calls[1].answer.rows) = 2
    /\ calls[2].answer = "raise"

\* C4: with a token, get_daily_prices accepts trade_date alone or start_date
\* with end_date and no trade_date, and forwards just those; every other
\* combination gets the parameter error and no request.
C4_DailyShapes ==
    (Served("get_daily_prices") /\ Given(seen)) =>
        LET single == Given(inv.trade_date) /\ ~Given(inv.start_date) /\ ~Given(inv.end_date)
            range  == ~Given(inv.trade_date) /\ Given(inv.start_date) /\ Given(inv.end_date)
            fixed  == {<<"ts_code", inv.ts_code>>,
                       <<"fields", PyStr("ts_code,trade_date,open,high,low,close,vol,amount")>>}
        IN  /\ (~single /\ ~range) => (result.kind = "daily_param_error" /\ calls = <<>>)
            /\ single => /\ calls # <<>>
                         /\ calls[1].api = "daily"
                         /\ calls[1].params = fixed \cup {<<"trade_date", inv.trade_date>>}
            /\ range => /\ calls # <<>>
                        /\ calls[1].api = "daily"
                        /\ calls[1].params = fixed \cup {<<"start_date", inv.start_date>>,
                                                         <<"end_date", inv.end_date>>}

\* C4 witness: trade_date together with a full range is refused.
C4_Witness ==
    /\ Served("get_daily_prices")
    /\ Given(seen)
    /\ Given(inv.trade_date) /\ Given(inv.start_date) /\ Given(inv.end_date)
    /\ result.kind = "daily_param_error"

\* C5: with a token, get_weekly_prices and get_monthly_prices answer the
\* parameter error and send nothing when ts_code and trade_date are both
\* missing or empty; otherwise they call their endpoint with exactly the
\* non-empty parameters among ts_code, trade_date, start_date, end_date.
C5_PeriodParams ==
    (pc = "done" /\ inv.tool \in {"get_weekly_prices", "get_monthly_prices"} /\ Given(seen)) =>
        LET wanted == {p \in {<<"ts_code", inv.ts_code>>, <<"trade_date", inv.trade_date>>,
                              <<"start_date", inv.start_date>>, <<"end_date", inv.end_date>>} :
                          Given(p[2])}
        IN  IF ~Given(inv.ts_code) /\ ~Given(inv.trade_date)
            THEN result.kind = "period_param_error" /\ calls = <<>>
            ELSE /\ calls # <<>>
                 /\ calls[1].api = PrimaryApi(inv.tool)
                 /\ calls[1].params = wanted

\* C5 witness: get_monthly_prices with trade_date and start_date, an empty
\* end_date and no ts_code called pro.monthly.
C5_Witness ==
    /\ Served("get_monthly_prices")
    /\ inv.ts_code = PyNone /\ Given(inv.trade_date) /\ Given(inv.start_date)
    /\ inv.end_date = PyStr("")
    /\ Len(calls) = 1
    /\ calls[1].api = "monthly"

\* C6: normalize_stock_code gives a value other than None exactly for the
\* codes that, trimmed and lower-cased, are 'sh' or 'sz' plus six decimal
\* digits; the value is that trimmed lower-case text, and normalizing it
\* again gives it back.  Seen on the request: the database is asked exactly
\* for such codes.
C6_Normalize ==
    (Served("get_pe_percentile") /\ inv.stock_code.type = "str") =>
        LET canon == Canonical(inv.stock_code)
            n == normalize_stock_code(inv.stock_code)
        IN  /\ ~n.raised
            /\ (n.value # PyNone) <=> WellFormed(canon)
            /\ (calls # <<>>) <=> WellFormed(canon)
            /\ WellFormed(canon) =>
                   /\ n.value = Text(canon)
                   /\ normalize_stock_code(n.value) = n
                   /\ calls[1].params = {<<"stock_code", Text(canon)>>}

\* C6 witness: a code with surrounding whitespace and an upper-case letter
\* was accepted.
C6_Witness ==
    /\ Served("get_pe_percentile")
    /\ inv.stock_code.type = "str"
    /\ Head(inv.stock_code.chars) = " "
    /\ inv.stock_code.chars[Len(inv.stock_code.chars)] = "LF"
    /\ inv.stock_code.chars[2] = "S"
    /\ calls # <<>>

\* The value f"{x:.4f}" prints, in units of 10^-4: the nearest one, a tie
\* going to the even one.
Nearest4(x) ==
    IF x.rest = "above_half" \/ (x.rest = "half" /\ x.units % 2 = 1)
    THEN x.units + 1 ELSE x.units

PeOutcomes == {"format_error", "stock_not_found", "no_pe_data", "pe_value"}

\* C7: a get_pe_percentile call that raises nothing ends in one of four
\* ways, decided in this order: format error without a query; no rows;
\* first row without a PE value; the first row's value to four decimals.
\* The query carries the normalized code, the message the caller's input.
C7_PeOutcomes ==
    (Served("get_pe_percentile") /\ result.kind # "query_failed") =>
        LET canon == Canonical(inv.stock_code)
        IN  /\ result.kind \in PeOutcomes
            /\ result.echo = inv.stock_code
            /\ IF ~WellFormed(canon)
               THEN result.kind = "format_error" /\ calls = <<>>
               ELSE /\ Len(calls) = 1
                    /\ calls[1].api = "supabase.stocks"
                    /\ calls[1].params = {<<"stock_code", Text(canon)>>}
                    /\ LET rows == calls[1].answer.rows
                           pe == IF "pe_percentile_3y" \in DOMAIN rows[1].items
                                 THEN rows[1].items["pe_percentile_3y"] ELSE PyNone
                       IN  CASE rows = <<>> -> result.kind = "stock_not_found"
                             [] rows # <<>> /\ pe = PyNone -> result.kind = "no_pe_data"
                             [] OTHER -> /\ result.kind = "pe_value"
                                         /\ result.units4 = Nearest4(pe)

\* C7 witness: a padded upper-case code was looked up in lower case and
\* its value, a tie at the fifth decimal, was printed.
C7_Witness ==
    /\ Served("get_pe_percentile")
    /\ result.kind = "pe_value"
    /\ result.units4 = 1234
    /\ calls[1].answer.rows[1].items["pe_percentile_3y"] = Float(1233, "half")
    /\ Text(Canonical(inv.stock_code)) # inv.stock_code

\* The exception, if any, that a get_pe_percentile call meets.
PeError ==
    IF inv.stock_code.type # "str" THEN "AttributeError"
    ELSE IF calls = <<>> THEN "none"
    ELSE IF calls[1].answer.raises THEN "APIError"
    ELSE IF calls[1].answer.rows = <<>> THEN "none"
    ELSE IF calls[1].answer.rows[1].type # "dict" THEN "AttributeError"
    ELSE IF "pe_percentile_3y" \notin DOMAIN calls[1].answer.rows[1].items THEN "none"
    ELSE IF calls[1].answer.rows[1].items["pe_percentile_3y"].type = "str" THEN "ValueError"
    ELSE "none"

\* C8: whatever exception get_pe_percentile meets (failed query, malformed
\* row, non-numeric value, non-string code), the registered tool returns the
\* query-failed text naming it and lets no exception out; without an
\* exception the function's own text is returned.
C8_HandlerCatchesAll ==
    Served("get_pe_percentile") =>
        /\ result.kind # "exception"
        /\ IF PeError # "none"
           THEN result = [kind |-> "query_failed", error |-> PeError]
           ELSE result.kind \in PeOutcomes

\* C8 witness: a non-numeric pe_percentile_3y ended as the query-failed text.
C8_Witness ==
    /\ Served("get_pe_percentile")
    /\ calls # <<>>
    /\ result = [kind |-> "query_failed", error |-> "ValueError"]

\* C9: setup_tushare_token answers success only when the token is in the
\* dotenv file and in the tushare library and the validation request
\* returned rows.
C9_SuccessMeansStored ==
    (Served("setup_tushare_token") /\ result.kind = "setup_success") =>
        /\ envFile = FileWith(inv.token)
        /\ libToken = inv.token
        /\ calls[1].answer = "rows"

\* C10: POST /tools/setup_tushare_token with a missing, empty or non-string
\* token is answered 400 and changes neither the dotenv file, nor the
\* environment, nor the library token, and sends no request.
C10_BadPayloadRejected ==
    [][(pc' = "done" /\ inv'.tool = "api_setup_tushare_token"
          /\ (inv'.token \in {PyNone, PyStr("")} \/ inv'.token.type # "str"))
        => /\ result' = [kind |-> "http", status |-> 400]
           /\ envFile' = envFile
           /\ osEnv' = osEnv
           /\ libToken' = libToken
           /\ calls' = <<>>]_vars

\* C10 witness: a numeric token was refused while a token file exists.
C10_Witness ==
    /\ Served("api_setup_tushare_token")
    /\ inv.token = PyInt(123)
    /\ result = [kind |-> "http", status |-> 400]
    /\ envFile.exists

-----------------------------------------------------------------------------
\* C11: in every server file GET /sse opens the SSE stream and runs the MCP
\* server on it, a POST handler is mounted at /sse/messages/, and the path
\* the transport advertises to the client is the path of that handler.
C11_SseWiring ==
    Served("GET /sse") =>
        /\ result.kind = "sse_stream"
        /\ sseOpen
        /\ result.endpoint = <<"sse", "messages", "">>
        /\ Dispatch(server, "POST", result.endpoint) = "handle_post_message"
        /\ Dispatch(server, "GET", <<"sse">>) # "404"

-----------------------------------------------------------------------------
\* C12: whenever get_start_date_for_n_days answers with a start date d, for
\* any integer days_ago (0 and negative included) and any returned calendar,
\* d is a trading day of that calendar, d <= end_date, and exactly days_ago
\* trading days of the calendar lie in [d, end_date].
C12_NthTradingDay ==
    (Served("get_start_date_for_n_days") /\ result.kind = "start_date") =>
        LET days == {calls[1].answer.rows[i].cal_date : i \in 1..Len(calls[1].answer.rows)}
            end == strptime(inv.end_date.v).date
            d == result.start
        IN  /\ d \in days
            /\ d <= end
            /\ Cardinality({x \in days : d <= x /\ x <= end}) = inv.days_ago

-----------------------------------------------------------------------------
\* The keyword occurs in the text as a substring, letter case ignored.
ContainsText(text, keyword) ==
    \E i \in 1..(Len(text) - Len(keyword) + 1) :
        \A j \in 1..Len(keyword) : Fold(keyword[j]) = Fold(text[i + j - 1])

\* The rows of the table whose ts_code or name contains the keyword, by
\* their positions in the table.
MatchingRows(rows, keyword) ==
    {i \in 1..Len(rows) :
        ContainsText(rows[i].ts_code, keyword) \/ ContainsText(rows[i].name, keyword)}

\* C13: search_stocks returns exactly the rows of pro.stock_basic() whose
\* ts_code or name contains the keyword, in the API's order, as lines
\* '<ts_code> - <name>' separated by a newline character, and the
\* 'no stock found' text if and only if no row matches; server.py and
\* intraday.py give the same text for the same answer.
C13_SearchText ==
    (/\ Served("search_stocks")
     /\ calls # <<>>
     /\ ~calls[1].answer.raises
     /\ HasColumn(calls[1].answer.rows, "ts_code")
     /\ HasColumn(calls[1].answer.rows, "name")) =>
        LET rows == calls[1].answer.rows
            hits == MatchingRows(rows, inv.keyword)
        IN  IF hits = {} THEN result.kind = "no_stock_found"
            ELSE /\ result.kind = "stocks"
                 /\ result.sep = "newline"
                 /\ Len(result.lines) = Cardinality(hits)
                 /\ \A k \in 1..Len(result.lines) :
                        \E i \in hits :
                            /\ result.lines[k] = <<rows[i].ts_code, rows[i].name>>
                            /\ Cardinality({j \in hits : j < i}) = k - 1

\* The same statement for the case the separator decides: two or more
\* matching rows and a keyword without regex metacharacters.
C13_SeparatorIsNewline ==
    (/\ Served("search_stocks")
     /\ result.kind = "stocks"
     /\ Len(result.lines) >= 2) => result.sep = "newline"

-----------------------------------------------------------------------------
\* The tools registered with @mcp.tool().
McpTools == DataTools \cup {"setup_tushare_token", "check_token_status", "get_pe_percentile"}

\* The request c raised.  The validation request and the name lookup log
\* their answer as a text, the other requests as a table or Raises.
CallRaised(c) ==
    IF c.api = "stock_basic" /\ c.params # {} THEN c.answer = "raise" ELSE c.answer.raises

\* The result is the failure text of the invoked tool.
FailureText ==
    CASE inv.tool = "setup_tushare_token" -> result.kind = "setup_failed"
      [] inv.tool = "check_token_status"  -> result.kind = "status_failed"
      [] inv.tool = "get_pe_percentile"   -> result.kind = "query_failed"
      [] OTHER -> result = [kind |-> "failed", tool |-> inv.tool]

\* No endpoint is requested twice by the invocation.
EachEndpointOnce == \A i, j \in 1..Len(calls) : i # j => calls[i].api # calls[j].api

\* C14 as stated: when a remote call of a tool raises, no endpoint is
\* attempted twice and the invocation ends with the tool's failure text.
C14_AnyRaiseFails ==
    (/\ pc = "done"
     /\ inv.tool \in McpTools
     /\ \E i \in 1..Len(calls) : CallRaised(calls[i])) =>
        EachEndpointOnce /\ FailureText

\* The token state the step leaves is the one the token read of the
\* invocation gives; the failed request adds nothing to it.
OnlyTokenRead ==
    LET g == get_tushare_token(server, projectEnv, Env, inv'.fs).env
    IN  osEnv' = g.osEnv /\ envFile' = g.envFile /\ libToken' = g.libToken

\* The requests and the result of a served tool invocation: no endpoint
\* twice; a raising first request is the only one and gives the failure
\* text; a raising second request is the name lookup of get_daily_prices.
RaiseEndsInvocation ==
    (pc = "done" /\ inv.tool \in McpTools) =>
        /\ EachEndpointOnce
        /\ (calls # <<>> /\ CallRaised(calls[1])) => (Len(calls) = 1 /\ FailureText)
        /\ (Len(calls) = 2 /\ CallRaised(calls[2])) =>
               (/\ inv.tool = "get_daily_prices"
                /\ result.kind = "prices"
                /\ result.name = inv.ts_code)

\* A step into a failed invocation changes the token state only as the
\* token read does; the step out of it clears the invocation and keeps the
\* token state.
FailureLeavesNoTrace ==
    /\ (/\ pc = "idle" /\ pc' = "done"
        /\ inv'.tool \in DataTools \cup {"check_token_status"}
        /\ calls' # <<>>
        /\ CallRaised(calls'[1])) => OnlyTokenRead
    /\ (/\ pc = "done" /\ inv.tool \in McpTools
        /\ calls # <<>>
        /\ CallRaised(calls[1])) =>
           (/\ pc' = "idle" /\ inv' = NoInvocation /\ calls' = <<>> /\ result' = NoResult
            /\ UNCHANGED <<osEnv, envFile, libToken, persisted>>)

\* C14 amended: no endpoint is attempted twice in an invocation; when the
\* request to the tool's own endpoint raises it is the only request and the
\* invocation ends with the tool's failure text; when the name lookup of
\* get_daily_prices raises the prices are returned with the ts_code as the
\* name.  The failure leaves no trace, so that a later invocation starts
\* from scratch.
C14_NoRetry == []RaiseEndsInvocation /\ [][FailureLeavesNoTrace]_vars

\* C14 witness: pro.daily raised; get_daily_prices sent that one request and
\* returned its failure text.
C14_Witness ==
    /\ Served("get_daily_prices")
    /\ Len(calls) = 1
    /\ calls[1].answer.raises
    /\ result = [kind |-> "failed", tool |-> "get_daily_prices"]

-----------------------------------------------------------------------------
\* The Tushare tools of server.py and intraday.py.
TushareTools == DataTools \cup {"setup_tushare_token", "check_token_status"}

\* The kinds of text a Tushare tool returns.
TextKinds ==
    {"token_error", "failed", "daily_param_error", "daily_not_found", "prices",
     "no_stock_found", "stocks", "calendar_empty", "calendar_no_open_day", "calendar",
     "period_param_error", "period_not_found", "not_enough_days", "start_date",
     "setup_no_token", "setup_failed", "setup_success", "setup_warning",
     "status_no_token", "status_failed", "status_ok", "status_warning"}

\* The invocation met an exception of the remote API or of its answer: the
\* request raised, or the table lacks a column the tool indexes.
MetException ==
    /\ calls # <<>>
    /\ \/ CallRaised(calls[1])
       \/ /\ inv.tool = "get_trade_calendar"
          /\ calls[1].answer.rows # <<>>
          /\ ~HasColumn(calls[1].answer.rows, "is_open")
       \/ /\ inv.tool = "get_daily_prices"
          /\ calls[1].answer.rows # <<>>
          /\ ~HasColumn(calls[1].answer.rows, "trade_date")
       \/ /\ inv.tool = "search_stocks"
          /\ ~HasColumn(calls[1].answer.rows, "name")

\* C15: every Tushare tool returns a text and lets no exception out,
\* whatever the arguments, the remote API (exception, empty table, missing
\* columns, malformed end_date) and the filesystem (directory or file that
\* cannot be created or read) do.
C15_Total ==
    (pc = "done" /\ inv.tool \in TushareTools) =>
        /\ result.kind \in TextKinds
        /\ MetException => FailureText
        /\ (inv.tool = "get_start_date_for_n_days" /\ Truthy(seen)
            /\ ~strptime(inv.end_date.v).ok) => FailureText

\* C15 witness: with the env directory not creatable, get_trade_calendar got
\* a table without the is_open column and returned its failure text.
C15_Witness ==
    /\ Served("get_trade_calendar")
    /\ inv.fs = "mkdir_raises"
    /\ calls # <<>>
    /\ ~calls[1].answer.raises
    /\ calls[1].answer.rows # <<>>
    /\ ~HasColumn(calls[1].answer.rows, "is_open")
    /\ result = [kind |-> "failed", tool |-> "get_trade_calendar"]

-----------------------------------------------------------------------------
\* The name _get_stock_name gives for the code c, read from the requests of
\* the invocation: the name column of the first row when a lookup of c
\* returned rows, else c itself.
LookedUpName(c) ==
    LET lookups == {i \in 1..Len(calls) :
                       calls[i].api = "stock_basic" /\ <<"ts_code", c>> \in calls[i].params}
    IN  IF \E i \in lookups : calls[i].answer \notin {"raise", "empty"}
        THEN PyStr(calls[CHOOSE i \in lookups : calls[i].answer \notin {"raise", "empty"}].answer)
        ELSE c

\* The pairs <<code, name shown for it>> of a price listing.
ShownNames ==
    IF "names" \in DOMAIN result
    THEN {<<PyStr(result.rows[i].ts_code), result.names[i]>> : i \in 1..Len(result.names)}
    ELSE {<<result.ts_code, result.name>>}

\* C16: the name get_daily_prices, get_weekly_prices and get_monthly_prices
\* print for a ts_code is the name of the first row of the stock_basic lookup
\* when that succeeds with rows, and the ts_code string otherwise; it is
\* always one of these two strings.
C16_NameShown ==
    (/\ pc = "done"
     /\ inv.tool \in {"get_daily_prices", "get_weekly_prices", "get_monthly_prices"}
     /\ result.kind = "prices") =>
        \A p \in ShownNames : p[2].type = "str" /\ p[2] = LookedUpName(p[1])

\* C16 for get_daily_prices alone.
C16_DailyNameShown ==
    (Served("get_daily_prices") /\ result.kind = "prices") =>
        \A p \in ShownNames : p[2].type = "str" /\ p[2] = LookedUpName(p[1])

-----------------------------------------------------------------------------
\* What the line of a field must show for a row of the API table.
MustShow(row, field) ==
    IF field \notin DOMAIN row THEN "not_provided"
    ELSE CASE row[field].cell = "nan"    -> "not_provided"
           [] row[field].cell = "number" -> "number"
           [] OTHER                      -> "not_numeric"

\* The printed block b is the block of the API row: its date, and six lines
\* for open, high, low, close, vol, amount in this order.
BlockOf(b, row) ==
    /\ b.date = row.trade_date
    /\ Len(b.lines) = 6
    /\ \A k \in 1..6 :
          /\ b.lines[k].field = <<"open", "high", "low", "close", "vol", "amount">>[k]
          /\ b.lines[k].shows = MustShow(row, b.lines[k].field)
          /\ b.lines[k].shows # "not_provided" => b.lines[k].v = row[b.lines[k].field].v

\* C17: get_daily_prices prints the rows of the API table, each once, in
\* non-increasing trade_date order whatever the order of the table; each row
\* gets six lines in the order open, high, low, close, vol, amount, an absent
\* or NaN field shown as 'not provided' and a non-numeric value as 'value is
\* not a number', the invocation going on.  An empty table gives the
\* not-found text for the requested date or range and no name lookup.
C17_DailyOutput ==
    (/\ Served("get_daily_prices")
     /\ calls # <<>>
     /\ ~calls[1].answer.raises) =>
        LET rows == calls[1].answer.rows
            n == Len(rows)
        IN  IF rows = <<>>
            THEN /\ result = [kind |-> "daily_not_found", ts_code |-> inv.ts_code,
                              single |-> Truthy(inv.trade_date)]
                 /\ Len(calls) = 1
            ELSE HasColumn(rows, "trade_date") =>
                 /\ result.kind = "prices"
                 /\ result.single = Truthy(inv.trade_date)
                 /\ Len(result.rows) = n
                 /\ \A i, j \in 1..n : i < j => result.rows[i].date >= result.rows[j].date
                 /\ \E f \in [1..n -> 1..n] :
                        /\ \A i, j \in 1..n : i # j => f[i] # f[j]
                        /\ \A i \in 1..n : BlockOf(result.rows[i], rows[f[i]])

\* C17 witness: the API returned the older row first, that row with a NaN
\* and a text among its values; the newer row is printed first and the
\* older one with 'not provided' and 'value is not a number' lines.
C17_Witness ==
    /\ Served("get_daily_prices")
    /\ result.kind = "prices"
    /\ Len(calls[1].answer.rows) = 2
    /\ calls[1].answer.rows[1].trade_date < calls[1].answer.rows[2].trade_date
    /\ result.rows[1].date > result.rows[2].date
    /\ result.rows[2].lines[1].shows = "not_provided"
    /\ result.rows[2].lines[2].shows = "not_numeric"
    /\ result.rows[2].lines[3].shows = "number"

-----------------------------------------------------------------------------
\* The TUSHARE_TOKEN entry of the dotenv file, None without file or entry.
FileToken == IF envFile.exists THEN envFile.key ELSE PyNone

\* No set_tushare_token call is in progress.
Quiescent == \A c \in Clients : setCalls[c].at = "idle"

\* C18: after any sequence of set_tushare_token calls (calls in which
\* set_key or ts.set_token raises, and calls of two clients whose statements
\* interleave, included) the token in the dotenv file is the token set in
\* the tushare library.
C18_FileEqualsLibrary == Quiescent => FileToken = libToken

\* C18, second sentence: the file never holds one caller's token while the
\* library holds another's.
C18_NoMixedTokens ==
    Quiescent => ~(FileToken \in Tokens /\ libToken \in Tokens /\ FileToken # libToken)

\* The same when no statement raises, so that only the interleaving of two
\* calls is left.
C18_NoMixedTokensWithoutFailure ==
    (Quiescent /\ \A c \in Clients : ~setCalls[c].raised) =>
        ~(FileToken \in Tokens /\ libToken \in Tokens /\ FileToken # libToken)

====
